---- MODULE Spec2Model ----
(***************************************************************************)
(* AWS PRM auto-tagging Lambda (lambda_function.py).                       *)
(*                                                                         *)
(* lambda_handler fans one process_region task per requested region out    *)
(* over a ThreadPoolExecutor; each task builds a ResourceTagger and runs   *)
(* the selected enumerators (tag_all_resources) one after the other; the   *)
(* handler collects the region results as as_completed yields them and     *)
(* sums the statistics.  The region tasks run on threads of their own: the *)
(* threads wait on the provider at every call, so an enumerator advances   *)
(* one list call or one listed resource at a time, its return to           *)
(* tag_all_resources is a step of its own, and the read of a bucket's tag  *)
(* set and its write are separate steps.                                   *)
(*   The provider (boto3) is the environment: what a list,      *)
(* describe or tag call answers is drawn from small sets.                  *)
(***************************************************************************)
EXTENDS Integers, Sequences, FiniteSets, TLC

VARIABLES
    event,      \* the request: [dry_run, regions, services]
    hpc,        \* position of lambda_handler: "idle", "running", "returned", "raised"
    task,       \* task[i]: "pending", "active", "finished" (the future holds its
                \* outcome) or "done" (the handler collected it), one per entry of regions
    tagger,     \* tagger[i]: the ResourceTagger of task i and its place in tag_all_resources
    results,    \* the handler's results list (the order as_completed yields)
    response,   \* <<>> until the handler returns, then <<the response>>
    calls,      \* mutating provider calls issued during this invocation, per API
    buckets,    \* the account's S3 buckets: name -> [loc, tags]
    lastPut,    \* per bucket, the last put_bucket_tagging request: <<>> or <<[before, written]>>
    budget      \* provider faults the environment may still inject in this invocation

vars == <<event, hpc, task, tagger, results, response, calls, buckets, lastPut, budget>>

----------------------------------------------------------------------------
(* Bounds of the model *)

\* resources listed to one invocation, split evenly over its regions and kinds
MaxItems == 2
\* provider faults (client errors, unexpected exceptions) per invocation
MaxFaults == 1
\* length of the region list of the worker-pool scenarios
MaxPoolRegions == 6

----------------------------------------------------------------------------
(* Program constants *)

TAG_KEY == "aws-apn-id"
TAG_VALUE == "pc:3jtjsihjubajawpl401j5b27s"
DEFAULT_BUCKET_REGION == "us-east-1"
\* the cap of ThreadPoolExecutor(max_workers=min(len(regions), 5))
WorkerCap == 5

\* the registry of tag_all_resources, in dict order
service_methods ==
    <<"ec2", "s3", "lambda", "rds", "dynamodb", "ecs", "eks", "elasticache", "elb", "additional">>

Range(s) == {s[j] : j \in 1..Len(s)}

Min(a, b) == IF a <= b THEN a ELSE b

\* ResourceTagger.__init__: the fresh statistics record
NewStats == [total |-> 0, tagged |-> 0, failed |-> 0, skipped |-> 0]

NoCalls == [tag_resources |-> 0, create_tags |-> 0, put_bucket_tagging |-> 0, add_tags |-> 0]

----------------------------------------------------------------------------
(* The shape of each enumerator: its list calls, in the order the code     *)
(* makes them.  The items of one list call carry the prefix the code puts  *)
(* in front of the identifier it reports.                                  *)

\* lists: the list calls of the enumerator, in order; isolated: each list
\* call and its loop have a try of their own, whose except clause only logs
tag_ec2_resources ==
    [lists |-> <<"ec2-instance", "ebs-volume", "ebs-snapshot", "transit-gateway">>,
     isolated |-> FALSE]

tag_s3_buckets == [lists |-> <<"s3-bucket">>, isolated |-> FALSE]

tag_lambda_functions == [lists |-> <<"lambda">>, isolated |-> FALSE]

tag_rds_resources == [lists |-> <<"rds-instance", "rds-cluster">>, isolated |-> FALSE]

tag_dynamodb_tables == [lists |-> <<"dynamodb">>, isolated |-> FALSE]

tag_ecs_resources == [lists |-> <<"ecs">>, isolated |-> FALSE]

tag_eks_clusters == [lists |-> <<"eks">>, isolated |-> FALSE]

tag_elasticache_resources ==
    [lists |-> <<"elasticache-cluster", "elasticache-rg">>, isolated |-> FALSE]

tag_load_balancers == [lists |-> <<"alb-nlb", "classic-lb">>, isolated |-> FALSE]

tag_additional_services ==
    [lists |-> <<"sns", "sqs", "stepfunctions", "secret", "efs">>, isolated |-> TRUE]

\* service_methods[service_name]
method(k) ==
    CASE k = "ec2"         -> tag_ec2_resources
      [] k = "s3"          -> tag_s3_buckets
      [] k = "lambda"      -> tag_lambda_functions
      [] k = "rds"         -> tag_rds_resources
      [] k = "dynamodb"    -> tag_dynamodb_tables
      [] k = "ecs"         -> tag_ecs_resources
      [] k = "eks"         -> tag_eks_clusters
      [] k = "elasticache" -> tag_elasticache_resources
      [] k = "elb"         -> tag_load_balancers
      [] k = "additional"  -> tag_additional_services

Segments(k) == method(k).lists

\* list_clusters and, per cluster, list_services share one loop nest
SubsOf(seg) == IF seg = "ecs" THEN {"ecs-cluster", "ecs-service"} ELSE {seg}

\* resources tagged by an inline create_tags / add_tags call
NativeSubs == {"ec2-instance", "ebs-volume", "ebs-snapshot", "transit-gateway", "classic-lb"}

\* resources whose ARN takes one more provider call (describe_table,
\* describe_cluster, get_queue_attributes, sts.get_caller_identity)
DescribedSubs == {"dynamodb", "eks", "sqs", "efs"}

\* resources the code skips when the listing carries no 'ARN'
OptionalArnSubs == {"elasticache-cluster", "elasticache-rg"}

\* what the provider can answer for one listed resource
Outs(sub) ==
    {"ok", "tag_error"}
    \cup (IF sub \in DescribedSubs THEN {"describe_error"} ELSE {})
    \cup (IF sub \in OptionalArnSubs THEN {"no_arn"} ELSE {})
    \cup (IF sub = "s3-bucket" THEN {"location_error", "get_error", "put_error"} ELSE {})

ErrorOuts == {"tag_error", "describe_error", "location_error", "get_error", "put_error"}

----------------------------------------------------------------------------
(* Tag Applier *)

Bump(stats, field) == [stats EXCEPT ![field] = @ + 1]

\* mutant: the dry-run guard of lines 67-70 is missing
tag_using_resource_groups_api_NoDryRunGuard(t, out, dry_run) ==
    IF out # "tag_error"
    THEN [t EXCEPT !.calls.tag_resources = @ + 1,
                   !.stats = Bump(Bump(@, "total"), "tagged"), !.ret = TRUE]
    ELSE [t EXCEPT !.calls.tag_resources = @ + 1,
                   !.stats = Bump(Bump(@, "total"), "failed"), !.ret = FALSE]

\* mutant: a dry run reports the resource as a failure
tag_using_resource_groups_api_DryRunFails(t, out, dry_run) ==
    IF dry_run
    THEN [t EXCEPT !.stats = Bump(Bump(@, "total"), "failed"), !.ret = FALSE]
    ELSE tag_using_resource_groups_api_NoDryRunGuard(t, out, dry_run)

\* tag_using_resource_groups_api: t is the frame of the running enumerator,
\* out the provider's answer to tag_resources; ret is the returned bool
tag_using_resource_groups_api(t, out, dry_run) ==
    IF dry_run
    THEN [t EXCEPT !.stats = Bump(@, "total"), !.ret = TRUE]
    ELSE IF out # "tag_error"
    THEN [t EXCEPT !.calls.tag_resources = @ + 1,
                   !.stats = Bump(Bump(@, "total"), "tagged"), !.ret = TRUE]
    ELSE [t EXCEPT !.calls.tag_resources = @ + 1,
                   !.stats = Bump(Bump(@, "total"), "failed"), !.ret = FALSE]

\* the API an inline tag call goes to
NativeApi(sub) == IF sub = "classic-lb" THEN "add_tags" ELSE "create_tags"

\* the loop body of tag_ec2_resources and of the Classic ELB loop: a client
\* error of create_tags / add_tags leaves the loop before any counter moves
native_tag(t, item, dry_run) ==
    IF dry_run
    THEN [t EXCEPT !.stats = Bump(@, "total"),
                   !.results = Append(@, <<item.sub, item.id>>)]
    ELSE IF item.out = "tag_error"
    THEN [t EXCEPT !.calls[NativeApi(item.sub)] = @ + 1, !.status = "ClientError"]
    ELSE [t EXCEPT !.calls[NativeApi(item.sub)] = @ + 1,
                   !.stats = Bump(Bump(@, "tagged"), "total"),
                   !.results = Append(@, <<item.sub, item.id>>)]

\* the loop body of the enumerators that go through tag_using_resource_groups_api
arn_tag(t, item, dry_run) ==
    IF item.out = "describe_error" THEN [t EXCEPT !.status = "ClientError"]
    ELSE IF item.out = "no_arn" THEN t
    ELSE LET r == tag_using_resource_groups_api(t, item.out, dry_run)
         IN  IF r.ret THEN [r EXCEPT !.results = Append(@, <<item.sub, item.id>>)] ELSE r

----------------------------------------------------------------------------
(* Service Enumerators.  A response is what the provider answers to one    *)
(* enumerator: items, the resources its list calls return, in the order    *)
(* the code meets them, each with the answer to the calls made for it; and *)
(* faults, the list calls that end in a ClientError or in another          *)
(* exception once their items have been handed out.                        *)

\* the loop body of the enumerators other than S3: the calls made for one
\* listed resource
loop_body(t, item, dry_run, region) ==
    IF item.sub \in NativeSubs THEN native_tag(t, item, dry_run)
    ELSE arn_tag(t, item, dry_run)

FaultOf(resp, seg) ==
    IF <<seg, "Exception">> \in resp.faults THEN "Exception"
    ELSE IF <<seg, "ClientError">> \in resp.faults THEN "ClientError"
    ELSE "ok"

\* the except ClientError clause around a list call: the enumerators count one
\* failure and return; tag_additional_services only logs and goes on to its
\* next service
on_client_error(t, isolated) ==
    IF isolated THEN [t EXCEPT !.status = "ok"]
    ELSE [t EXCEPT !.stats = Bump(@, "failed"), !.status = "caught"]

\* the frame of a running enumerator: its kind k, what the provider answers
\* to it (resp), the list call it is in (s), the next listed resource (j),
\* whether its next provider call is the list call ("list") or the calls
\* for resource j ("items"), its local results list and, for S3, the tag
\* set built for the bucket and not yet written
NewLoop(k, resp) ==
    [k |-> k, resp |-> resp, s |-> 1, j |-> 1, at |-> "list", results |-> <<>>,
     held |-> <<>>]

\* the enumerator is past its last list call, at its return statement
Finished(lp) == lp.s > Len(Segments(lp.k))

CurrentList(lp) == Segments(lp.k)[lp.s]

\* the current list call has a resource the loop has not visited
HasItem(lp) ==
    /\ ~Finished(lp)
    /\ lp.j <= Len(lp.resp.items)
    /\ lp.resp.items[lp.j].sub \in SubsOf(CurrentList(lp))

\* the next provider call is the current list call (its first page, or the
\* page after the resources handed out)
AtList(lp) == ~Finished(lp) /\ lp.at = "list"

\* the next provider call is made for a listed resource
AtItem(lp) == ~Finished(lp) /\ lp.at = "items" /\ HasItem(lp)

\* the next provider call is a list call that fails
AtFault(lp) == AtList(lp) /\ ~HasItem(lp) /\ FaultOf(lp.resp, CurrentList(lp)) # "ok"

\* the current list call answers: the loop over what it lists is entered, or,
\* when it lists nothing, the code goes on to its next list call
list_answers(lp) ==
    IF HasItem(lp) THEN [lp EXCEPT !.at = "items"] ELSE [lp EXCEPT !.s = @ + 1]

\* the loop has dealt with a resource: it goes on with the next one, asks for
\* a page that fails, or ends, and the code goes on to its next list call
next_item(lp) ==
    IF HasItem(lp) THEN lp
    ELSE IF FaultOf(lp.resp, CurrentList(lp)) # "ok" THEN [lp EXCEPT !.at = "list"]
    ELSE [lp EXCEPT !.s = @ + 1, !.at = "list"]

\* control leaves the loops of the current list call: the resources it still
\* lists are not visited
RECURSIVE skip_list(_)
skip_list(lp) ==
    IF HasItem(lp) THEN skip_list([lp EXCEPT !.j = @ + 1])
    ELSE [lp EXCEPT !.s = @ + 1, !.at = "list"]

\* control goes to the return statement of the enumerator
leave(lp) == [lp EXCEPT !.s = Len(Segments(lp.k)) + 1, !.at = "list"]

----------------------------------------------------------------------------
(* S3: the one enumerator that reads the tag set and writes it back whole *)

Keys(tag_set) == {tag_set[j][1] : j \in 1..Len(tag_set)}

HasDuplicateKeys(tag_set) ==
    \E i, j \in 1..Len(tag_set) : i < j /\ tag_set[i][1] = tag_set[j][1]

\* the provider's put_bucket_tagging: it answers a client error when told to,
\* and always for a tag set that names a key twice (tag keys are unique per
\* resource)
PutAccepted(tag_set, out) == out # "put_error" /\ ~HasDuplicateKeys(tag_set)

\* location['LocationConstraint'] or 'us-east-1'
BucketRegion(loc) == IF loc = "" THEN DEFAULT_BUCKET_REGION ELSE loc

\* the region filter of line 181
InBucketScope(loc, region) ==
    BucketRegion(loc) = region \/ BucketRegion(loc) = DEFAULT_BUCKET_REGION

\* lines 184-191: the tag set handed to put_bucket_tagging
TagSetToWrite(existing, out) ==
    Append(IF out = "get_error" THEN <<>> ELSE existing, <<TAG_KEY, TAG_VALUE>>)

\* lines 176-191 and 199-205 for one bucket, up to the put_bucket_tagging
\* call: get_bucket_location, the region filter, and on a real run
\* get_bucket_tagging and the append.  tg is the tagger, whose loop frame
\* (NewLoop) is at this bucket, bs the account.
s3_read(tg, item, bs, dry_run, region) ==
    LET lp == tg.loop[1]
        next == next_item([lp EXCEPT !.j = @ + 1])
    IN  IF item.out = "location_error"
        THEN [tg EXCEPT !.stats = Bump(@, "failed"), !.loop = <<next>>]
        ELSE IF ~InBucketScope(bs[item.id].loc, region)
        THEN [tg EXCEPT !.loop = <<next>>]
        ELSE IF dry_run
        THEN [tg EXCEPT !.stats = Bump(@, "total"),
                        !.loop = <<[next EXCEPT !.results = Append(@, <<item.sub, item.id>>)]>>]
        ELSE [tg EXCEPT !.loop =
                 <<[lp EXCEPT !.held = <<TagSetToWrite(bs[item.id].tags, item.out)>>]>>]

\* lines 193-205: put_bucket_tagging answers and the loop moves on
s3_write(tg, item) ==
    LET lp == tg.loop[1]
        next == next_item([lp EXCEPT !.j = @ + 1, !.held = <<>>])
    IN  IF PutAccepted(lp.held[1], item.out)
        THEN [tg EXCEPT !.stats = Bump(Bump(@, "tagged"), "total"),
                        !.loop = <<[next EXCEPT !.results = Append(@, <<item.sub, item.id>>)]>>]
        ELSE [tg EXCEPT !.stats = Bump(@, "failed"), !.loop = <<next>>]

----------------------------------------------------------------------------
(* The request and the kind filter *)

\* services: absent (None), a list of names, or a value that is no container
\* of names (a number: truthy, and 'k in services' raises TypeError)
Absent == [kind |-> "absent", names |-> <<>>]
Names(ns) == [kind |-> "list", names |-> ns]
Malformed == [kind |-> "malformed", names |-> <<>>]

\* the truth value Python gives 'services' in 'if services:'
Truthy(services) ==
    services.kind = "malformed" \/ (services.kind = "list" /\ Len(services.names) > 0)

\* mutant: the filter is applied whenever the key is present in the event
SelectedKinds_FilterWhenPresent(services) ==
    IF services.kind = "list"
    THEN SelectSeq(service_methods, LAMBDA k : k \in Range(services.names))
    ELSE service_methods

\* lines 469-471: the kinds tag_all_resources runs, in registry order
SelectedKinds(services) ==
    IF Truthy(services)
    THEN SelectSeq(service_methods, LAMBDA k : k \in Range(services.names))
    ELSE service_methods

\* mutant: the pool is as wide as the region list
max_workers_Unbounded(regions) == Len(regions)

\* line 532: max_workers=min(len(regions), 5)
max_workers(regions) == Min(Len(regions), WorkerCap)

----------------------------------------------------------------------------
(* What the provider may answer to one enumerator *)

SegIndex(k, sub) == CHOOSE s \in 1..Len(Segments(k)) : sub \in SubsOf(Segments(k)[s])

ItemKinds(k, dry_run) ==
    {p \in (UNION {SubsOf(Segments(k)[s]) : s \in 1..Len(Segments(k))}) \X
           {"ok", "tag_error", "describe_error", "no_arn"} :
        /\ p[2] \in Outs(p[1])
        /\ dry_run => p[2] # "tag_error"}

\* the listed resources come in the order of the list calls; an ECS service
\* is listed under a cluster
WellOrdered(k, f) ==
    /\ \A j \in 1..(Len(f) - 1) : SegIndex(k, f[j][1]) <= SegIndex(k, f[j + 1][1])
    /\ (Len(f) > 0 /\ k = "ecs") => f[1][1] = "ecs-cluster"

ItemSeqs(k, n, dry_run) ==
    {[j \in 1..Len(f) |-> [sub |-> f[j][1], out |-> f[j][2], id |-> j]] :
        f \in {g \in UNION {[1..m -> ItemKinds(k, dry_run)] : m \in 0..n} : WellOrdered(k, g)}}

FaultSets(k, n) ==
    {fs \in SUBSET (Range(Segments(k)) \X {"ClientError", "Exception"}) :
        /\ Cardinality(fs) <= n
        /\ \A a, b \in fs : a[1] = b[1] => a = b}

BucketOuts(dry_run) ==
    IF dry_run THEN {"ok", "location_error"}
    ELSE {"ok", "location_error", "get_error", "put_error"}

\* list_buckets returns every bucket of the account, whatever the region
BucketItemSeqs(names, dry_run) ==
    {[j \in 1..Len(names) |-> [sub |-> "s3-bucket", out |-> f[j], id |-> names[j]]] :
        f \in [1..Len(names) -> BucketOuts(dry_run)]}

\* the list calls made without a paginator: one call, which returns the
\* resources or fails
Unpaginated == {"ec2-instance", "ebs-volume", "ebs-snapshot", "transit-gateway", "s3-bucket"}

NumFaults(resp) ==
    Cardinality({j \in 1..Len(resp.items) : resp.items[j].out \in ErrorOuts})
    + Cardinality(resp.faults)

Responses(k, n, faults, dry_run, names) ==
    IF k = "s3"
    THEN {r \in [items : BucketItemSeqs(names, dry_run), faults : {{}}] :
              NumFaults(r) <= faults}
         \cup {r \in [items : {<<>>}, faults : FaultSets(k, 1)] : 0 < NumFaults(r) /\ NumFaults(r) <= faults}
    ELSE {r \in [items : ItemSeqs(k, n, dry_run), faults : FaultSets(k, faults)] :
              /\ NumFaults(r) <= faults
              /\ \A f \in r.faults : f[1] \in Unpaginated =>
                    \A j \in 1..Len(r.items) : r.items[j].sub # f[1]}

----------------------------------------------------------------------------
(* Region Orchestrator *)

NewTagger == [pc |-> 1, stats |-> NewStats, all_results |-> <<>>, seen |-> <<>>, loop |-> <<>>]

\* lines 475-480: record the enumerator's list, or count the exception that
\* escaped it and go on with the next kind.  seen keeps what the provider
\* answered.
after_method(tg, k, a, resp) ==
    IF a.status = "Exception"
    THEN [tg EXCEPT !.pc = @ + 1, !.stats = Bump(a.stats, "failed"),
                    !.seen = (k :> resp) @@ @]
    ELSE [tg EXCEPT !.pc = @ + 1, !.stats = a.stats,
                    !.all_results = (k :> a.results) @@ @, !.seen = (k :> resp) @@ @]

\* a ClientError reaches the except clause around the current list call:
\* the enumerator counts it and goes to its return statement, or
\* (tag_additional_services) goes on to its next list call
client_error(tg) ==
    LET lp == tg.loop[1]
        t == on_client_error([stats |-> tg.stats, results |-> lp.results,
                              status |-> "ClientError"], method(lp.k).isolated)
    IN  IF t.status = "ok" THEN [tg EXCEPT !.loop = <<skip_list(lp)>>]
        ELSE [tg EXCEPT !.stats = t.stats, !.loop = <<leave(lp)>>]

\* the current list call fails: a ClientError goes to the except clause,
\* anything else escapes the enumerator to lines 478-480
list_fails(tg) ==
    LET lp == tg.loop[1]
    IN  IF FaultOf(lp.resp, CurrentList(lp)) = "Exception"
        THEN after_method([tg EXCEPT !.loop = <<>>], lp.k,
                          [stats |-> tg.stats, results |-> lp.results,
                           status |-> "Exception"], lp.resp)
        ELSE client_error(tg)

\* lines 476-477: the enumerator returns its list
method_returns(tg) ==
    LET lp == tg.loop[1]
    IN  after_method([tg EXCEPT !.loop = <<>>], lp.k,
                     [stats |-> tg.stats, results |-> lp.results, status |-> "ok"], lp.resp)

\* lines 482-486
RegionResult(region, tg) ==
    [region |-> region, resources |-> tg.all_results, statistics |-> tg.stats]

\* lines 545-549: the record of a region task that raised
DegradedResult(region, err) ==
    [region |-> region, error |-> err,
     statistics |-> [total |-> 0, tagged |-> 0, failed |-> 1]]

----------------------------------------------------------------------------
(* Fan-out Coordinator *)

RECURSIVE SumOf(_, _)
SumOf(rs, field) ==
    IF Len(rs) = 0 THEN 0 ELSE rs[1].statistics[field] + SumOf(Tail(rs), field)

\* mutant: the records of failed region tasks are left out of the sums
total_stats_SkipDegraded(rs) ==
    LET ok == SelectSeq(rs, LAMBDA r : "resources" \in DOMAIN r)
    IN  [total |-> SumOf(ok, "total"), tagged |-> SumOf(ok, "tagged"),
         failed |-> SumOf(ok, "failed")]

\* lines 552-556
total_stats(rs) ==
    [total |-> SumOf(rs, "total"), tagged |-> SumOf(rs, "tagged"),
     failed |-> SumOf(rs, "failed")]

\* lines 558-567
Response(e, rs) ==
    [statusCode |-> 200,
     body |-> [message |-> "AWS PRM tagging completed",
               dry_run |-> e.dry_run,
               regions_processed |-> Len(e.regions),
               total_statistics |-> total_stats(rs),
               region_details |-> rs]]

----------------------------------------------------------------------------
(* Requests and accounts the model is run on *)

AllRegions ==
    <<"us-east-1", "us-west-2", "eu-west-1", "eu-central-1", "ap-south-1", "ap-northeast-1",
      "sa-east-1", "ca-central-1", "us-east-2", "us-west-1", "eu-north-1", "ap-southeast-2">>

SingleKindFilters == {Names(<<service_methods[j]>>) : j \in 1..Len(service_methods)}

\* one region (or none) with every filter
NarrowEvents ==
    [dry_run : BOOLEAN,
     regions : {<<>>, <<"us-east-1">>, <<"us-west-2">>},
     services : {Absent, Names(<<>>), Malformed, Names(<<"notarealservice">>),
                 Names(<<"ec2", "notarealservice">>), Names(<<"additional", "lambda">>)}
                \cup SingleKindFilters]

\* two regions with the filters that keep the run small
WideEvents ==
    [dry_run : BOOLEAN,
     regions : {<<"us-east-1", "us-west-2">>},
     services : {Names(<<"s3">>), Names(<<"lambda">>), Names(<<"notarealservice", "ec2">>),
                 Names(<<"additional", "lambda">>), Malformed}]

Events == NarrowEvents \cup WideEvents

\* the worker-pool scenarios: more regions than workers (region tasks that
\* raise at once), and two region tasks at work on the same account
PoolEvents ==
    [dry_run : {TRUE},
     regions : {SubSeq(AllRegions, 1, MaxPoolRegions)},
     services : {Malformed}]
    \cup [dry_run : {FALSE}, regions : {<<"us-east-1", "us-west-2">>},
          services : {Names(<<"s3">>), Names(<<"lambda">>)}]

\* resources one enumerator may be given
ItemBound(e) ==
    LET work == Len(e.regions) * Len(SelectedKinds(e.services))
    IN  IF work = 0 THEN 0 ELSE MaxItems \div work

BucketNames == <<"b1", "b2">>

BucketProfiles ==
    [loc : {"", "us-west-2", "eu-west-1"},
     tags : {<<>>, <<<<"owner", "ops">>>>, <<<<"owner", "ops">>, <<TAG_KEY, "old">>>>}]

\* the accounts: buckets exist where the request asks for S3 by name
BucketWorlds(e) ==
    IF e.services.kind = "list" /\ "s3" \in Range(e.services.names)
    THEN UNION {[{BucketNames[j] : j \in 1..m} -> BucketProfiles] :
                    m \in 0..Min(ItemBound(e), Len(BucketNames))}
    ELSE {<<>>}

\* the buckets in the order list_buckets returns them
BucketList(bs) == SelectSeq(BucketNames, LAMBDA b : b \in DOMAIN bs)

----------------------------------------------------------------------------
(* The state machine *)

Tasks == 1..Len(event.regions)

Active == {i \in Tasks : task[i] = "active"}

Start(e, bs, faults) ==
    /\ event = e
    /\ buckets = bs
    /\ lastPut = [b \in DOMAIN bs |-> <<>>]
    /\ hpc = "idle"
    /\ task = [i \in 1..Len(e.regions) |-> "pending"]
    /\ tagger = [i \in 1..Len(e.regions) |-> NewTagger]
    /\ results = <<>>
    /\ response = <<>>
    /\ calls = NoCalls
    /\ budget = [left |-> faults, each |-> faults]

Init == \E e \in Events : \E bs \in BucketWorlds(e) : Start(e, bs, MaxFaults)

\* the pool scenarios
InitPool == \E e \in PoolEvents : \E bs \in BucketWorlds(e) : Start(e, bs, MaxFaults)

\* lambda_handler is entered (again): lines 509-536.  An empty region list
\* makes ThreadPoolExecutor(max_workers=0) raise ValueError out of the handler.
Invoke ==
    /\ hpc \in {"idle", "returned", "raised"}
    /\ hpc' = IF max_workers(event.regions) <= 0 THEN "raised" ELSE "running"
    /\ task' = [i \in Tasks |-> "pending"]
    /\ tagger' = [i \in Tasks |-> NewTagger]
    /\ results' = <<>>
    /\ response' = <<>>
    /\ calls' = NoCalls
    /\ budget' = [budget EXCEPT !.left = budget.each]
    /\ UNCHANGED <<event, buckets, lastPut>>

\* a worker takes the next submitted process_region off the queue
StartTask(i) ==
    /\ hpc = "running"
    /\ task[i] = "pending"
    /\ \A j \in Tasks : j < i => task[j] # "pending"
    /\ Cardinality(Active) < max_workers(event.regions)
    /\ task' = [task EXCEPT ![i] = "active"]
    /\ UNCHANGED <<event, hpc, tagger, results, response, calls, buckets, lastPut, budget>>

\* one turn of the loop of tag_all_resources: the next selected enumerator
\* is entered, up to its first list call; what the provider answers to its
\* calls is drawn here
RunKind(i) ==
    /\ hpc = "running"
    /\ task[i] = "active"
    /\ event.services.kind # "malformed"
    /\ tagger[i].loop = <<>>
    /\ tagger[i].pc <= Len(SelectedKinds(event.services))
    /\ LET k == SelectedKinds(event.services)[tagger[i].pc]
       IN  \E resp \in Responses(k, ItemBound(event), budget.left, event.dry_run,
                                 BucketList(buckets)) :
             /\ tagger' = [tagger EXCEPT ![i].loop = <<NewLoop(k, resp)>>]
             /\ budget' = [budget EXCEPT !.left = @ - NumFaults(resp)]
    /\ UNCHANGED <<event, hpc, task, results, response, calls, buckets, lastPut>>

\* a list call of the enumerator answers
ListCall(i) ==
    /\ hpc = "running"
    /\ task[i] = "active"
    /\ tagger[i].loop # <<>>
    /\ AtList(tagger[i].loop[1])
    /\ ~AtFault(tagger[i].loop[1])
    /\ tagger' = [tagger EXCEPT ![i].loop = <<list_answers(@[1])>>]
    /\ UNCHANGED <<event, hpc, task, results, response, calls, buckets, lastPut, budget>>

\* a list call of the enumerator (its first page or a later one) fails
ListFails(i) ==
    /\ hpc = "running"
    /\ task[i] = "active"
    /\ tagger[i].loop # <<>>
    /\ AtFault(tagger[i].loop[1])
    /\ tagger' = [tagger EXCEPT ![i] = list_fails(@)]
    /\ UNCHANGED <<event, hpc, task, results, response, calls, buckets, lastPut, budget>>

\* the calls the enumerator makes for one listed resource (describe and tag)
TagItem(i) ==
    /\ hpc = "running"
    /\ task[i] = "active"
    /\ tagger[i].loop # <<>>
    /\ tagger[i].loop[1].k # "s3"
    /\ AtItem(tagger[i].loop[1])
    /\ LET lp == tagger[i].loop[1]
           t == loop_body([stats |-> tagger[i].stats, calls |-> calls, results |-> lp.results,
                           status |-> "ok", ret |-> FALSE],
                          lp.resp.items[lp.j], event.dry_run, event.regions[i])
       IN  /\ tagger' = [tagger EXCEPT ![i] =
                            IF t.status = "ClientError" THEN client_error(@)
                            ELSE [@ EXCEPT !.stats = t.stats,
                                           !.loop = <<next_item([lp EXCEPT !.results = t.results,
                                                                           !.j = @ + 1])>>]]
           /\ calls' = t.calls
    /\ UNCHANGED <<event, hpc, task, results, response, buckets, lastPut, budget>>

\* tag_s3_buckets, lines 174-191: the calls that read one bucket
BucketRead(i) ==
    /\ hpc = "running"
    /\ task[i] = "active"
    /\ tagger[i].loop # <<>>
    /\ tagger[i].loop[1].k = "s3"
    /\ AtItem(tagger[i].loop[1])
    /\ tagger[i].loop[1].held = <<>>
    /\ LET lp == tagger[i].loop[1]
       IN  tagger' = [tagger EXCEPT ![i] =
                         s3_read(@, lp.resp.items[lp.j], buckets,
                                 event.dry_run, event.regions[i])]
    /\ UNCHANGED <<event, hpc, task, results, response, calls, buckets, lastPut, budget>>

\* tag_s3_buckets, lines 193-205: put_bucket_tagging for the bucket read
BucketWrite(i) ==
    /\ hpc = "running"
    /\ task[i] = "active"
    /\ tagger[i].loop # <<>>
    /\ tagger[i].loop[1].held # <<>>
    /\ LET lp == tagger[i].loop[1]
           item == lp.resp.items[lp.j]
           written == lp.held[1]
       IN  /\ tagger' = [tagger EXCEPT ![i] = s3_write(@, item)]
           /\ calls' = [calls EXCEPT !.put_bucket_tagging = @ + 1]
           /\ lastPut' = [lastPut EXCEPT ![item.id] =
                             <<[before |-> buckets[item.id].tags, written |-> written]>>]
           /\ buckets' = IF PutAccepted(written, item.out)
                         THEN [buckets EXCEPT ![item.id].tags = written]
                         ELSE buckets
    /\ UNCHANGED <<event, hpc, task, results, response, budget>>

\* lines 476-477: the enumerator returns and tag_all_resources records its
\* list under the kind
ReturnKind(i) ==
    /\ hpc = "running"
    /\ task[i] = "active"
    /\ tagger[i].loop # <<>>
    /\ Finished(tagger[i].loop[1])
    /\ tagger' = [tagger EXCEPT ![i] = method_returns(@)]
    /\ UNCHANGED <<event, hpc, task, results, response, calls, buckets, lastPut, budget>>

\* process_region returns: the future holds the region's result and the
\* worker is free for the next task
FinishTask(i) ==
    /\ hpc = "running"
    /\ task[i] = "active"
    /\ event.services.kind # "malformed"
    /\ tagger[i].loop = <<>>
    /\ tagger[i].pc > Len(SelectedKinds(event.services))
    /\ task' = [task EXCEPT ![i] = "finished"]
    /\ UNCHANGED <<event, hpc, tagger, results, response, calls, buckets, lastPut, budget>>

\* process_region raises (line 471 on a services value that holds no names):
\* the future holds the exception
TaskRaises(i) ==
    /\ hpc = "running"
    /\ task[i] = "active"
    /\ event.services.kind = "malformed"
    /\ task' = [task EXCEPT ![i] = "finished"]
    /\ UNCHANGED <<event, hpc, tagger, results, response, calls, buckets, lastPut, budget>>

\* lines 538-549: as_completed yields a finished future, in any order among
\* those that are finished, and the handler appends its result or the
\* degraded record of a task that raised
Collect(i) ==
    /\ hpc = "running"
    /\ task[i] = "finished"
    /\ task' = [task EXCEPT ![i] = "done"]
    /\ results' = Append(results,
                      IF event.services.kind = "malformed"
                      THEN DegradedResult(event.regions[i], "TypeError")
                      ELSE RegionResult(event.regions[i], tagger[i]))
    /\ UNCHANGED <<event, hpc, tagger, response, calls, buckets, lastPut, budget>>

\* every future is collected: the handler aggregates and returns
Return ==
    /\ hpc = "running"
    /\ \A i \in Tasks : task[i] = "done"
    /\ hpc' = "returned"
    /\ response' = <<Response(event, results)>>
    /\ UNCHANGED <<event, task, tagger, results, calls, buckets, lastPut, budget>>

Next ==
    \/ Invoke
    \/ \E i \in Tasks : StartTask(i)
    \/ \E i \in Tasks : RunKind(i)
    \/ \E i \in Tasks : ListCall(i)
    \/ \E i \in Tasks : ListFails(i)
    \/ \E i \in Tasks : TagItem(i)
    \/ \E i \in Tasks : BucketRead(i)
    \/ \E i \in Tasks : BucketWrite(i)
    \/ \E i \in Tasks : ReturnKind(i)
    \/ \E i \in Tasks : FinishTask(i)
    \/ \E i \in Tasks : TaskRaises(i)
    \/ \E i \in Tasks : Collect(i)
    \/ Return

Spec == Init /\ [][Next]_vars

\* the pool's threads keep running and the provider's calls return
FairPool == InitPool /\ [][Next]_vars /\ WF_vars(Next)

----------------------------------------------------------------------------
(* Vocabulary of the properties *)

\* the skipped counter of a statistics record; the record of a failed region
\* task and the global record carry none
Skipped(st) == IF "skipped" \in DOMAIN st THEN st.skipped ELSE 0

Balanced(st) == st.total = st.tagged + st.failed + Skipped(st)

Returned == hpc = "returned" /\ Len(response) = 1

Body == response[1].body

RECURSIVE SumDetails(_, _, _)
SumDetails(details, field, n) ==
    IF n = 0 THEN 0 ELSE SumDetails(details, field, n - 1) + details[n].statistics[field]

\* what task i counted: its tagger's counters, or the one failure of a task that raised
Counted(i, field) ==
    IF event.services.kind = "malformed"
    THEN (IF field = "failed" THEN 1 ELSE 0)
    ELSE tagger[i].stats[field]

RECURSIVE SumCounted(_, _)
SumCounted(n, field) == IF n = 0 THEN 0 ELSE SumCounted(n - 1, field) + Counted(n, field)

\* the listed resources a region pass has to consider
InScope(it, region) ==
    /\ it.out # "no_arn"
    /\ it.sub = "s3-bucket" => InBucketScope(buckets[it.id].loc, region)

InScopeIds(resp, region) ==
    LET sel == SelectSeq(resp.items, LAMBDA it : InScope(it, region))
    IN  [j \in 1..Len(sel) |-> <<sel[j].sub, sel[j].id>>]

RECURSIVE InScopeCount(_, _, _)
InScopeCount(seen, region, n) ==
    IF n = 0 THEN 0
    ELSE InScopeCount(seen, region, n - 1)
         + (IF service_methods[n] \in DOMAIN seen
            THEN Len(InScopeIds(seen[service_methods[n]], region)) ELSE 0)

\* task i is between two enumerators, or past the last: none is under way
BetweenKinds(i) == tagger[i].loop = <<>>

\* some list or describe call of the enumerator failed
EnumerationFailed(resp) ==
    \/ resp.faults # {}
    \/ \E j \in 1..Len(resp.items) : resp.items[j].out \in {"describe_error", "location_error"}

\* the enumerator was cut short: a list or describe call failed, or an inline
\* create_tags / add_tags call raised
EnumeratorFailed(resp) ==
    \/ EnumerationFailed(resp)
    \/ \E j \in 1..Len(resp.items) :
          resp.items[j].sub \in NativeSubs /\ resp.items[j].out = "tag_error"

\* a client error is raised inside the list call seg or its loop
ClientErrorIn(resp, seg) ==
    \/ <<seg, "ClientError">> \in resp.faults
    \/ \E j \in 1..Len(resp.items) :
          /\ resp.items[j].sub \in SubsOf(seg)
          /\ \/ resp.items[j].out = "describe_error"
             \/ resp.items[j].sub \in NativeSubs /\ resp.items[j].out = "tag_error"

\* the enumerator of kind k let an exception escape: the first thing to go
\* wrong in a list call it reached was no client error
Raised(k, resp) ==
    \E s \in 1..Len(Segments(k)) :
        /\ <<Segments(k)[s], "Exception">> \in resp.faults
        /\ ~ClientErrorIn(resp, Segments(k)[s])
        /\ k # "additional" => \A r \in 1..(s - 1) : ~ClientErrorIn(resp, Segments(k)[r])

KnownKinds == Range(service_methods)

----------------------------------------------------------------------------
(* C1: in every statistics record the run produces (each tagger's, each    *)
(* entry of the results list, the degraded record of a failed region task  *)
(* and the global record) total = tagged + failed + skipped.               *)
C1_StatsBalanced ==
    /\ \A i \in Tasks : Balanced(tagger[i].stats)
    /\ \A j \in 1..Len(results) : Balanced(results[j].statistics)
    /\ Returned => Balanced(Body.total_statistics)

(* C2: in the response each global counter (total, tagged, failed) is the   *)
(* sum of that counter over the entries of region_details, and over what   *)
(* the region tasks counted, whatever order they completed in.             *)
C2_GlobalIsSum ==
    Returned =>
        /\ Len(Body.region_details) = Len(event.regions)
        /\ \A f \in {"total", "tagged", "failed"} :
              /\ Body.total_statistics[f]
                    = SumDetails(Body.region_details, f, Len(Body.region_details))
              /\ Body.total_statistics[f] = SumCounted(Len(event.regions), f)

C2_Witness ==
    /\ Returned
    /\ Len(event.regions) = 2
    /\ Body.region_details[1].region = event.regions[2]
    /\ Body.total_statistics.total = 2
    /\ Body.total_statistics.failed = 1

(* C3: in a dry run no mutating provider call (tag_resources, create_tags,  *)
(* put_bucket_tagging, add_tags) is ever issued.                           *)
C3_DryRunNoMutation == event.dry_run => calls = NoCalls

C3_Witness ==
    /\ event.dry_run
    /\ Returned
    /\ \E i \in Tasks : "lambda" \in DOMAIN tagger[i].all_results
                        /\ Len(tagger[i].all_results["lambda"]) = 2

(* C4: in a dry run, as long as every list and describe call of a region    *)
(* succeeded, the region's total after each enumerator is the number of    *)
(* in-scope resources listed to it, tagged and failed are 0, and the list  *)
(* of each kind holds exactly the identifiers of that kind's in-scope      *)
(* resources.  While an enumerator whose calls all succeed is under way,   *)
(* total has grown by the resources it has reported so far, each of them   *)
(* an in-scope resource listed to it, and tagged and failed are still 0.   *)
C4_DryRunReportsAll ==
    \A i \in Tasks :
        (/\ event.dry_run
         /\ \A k \in DOMAIN tagger[i].seen : ~EnumerationFailed(tagger[i].seen[k]))
        => /\ DOMAIN tagger[i].all_results = DOMAIN tagger[i].seen
           /\ \A k \in DOMAIN tagger[i].seen :
                 tagger[i].all_results[k] = InScopeIds(tagger[i].seen[k], event.regions[i])
           /\ BetweenKinds(i) =>
                 /\ tagger[i].stats.total
                       = InScopeCount(tagger[i].seen, event.regions[i], Len(service_methods))
                 /\ tagger[i].stats.tagged = 0
                 /\ tagger[i].stats.failed = 0
           /\ (~BetweenKinds(i) /\ ~EnumerationFailed(tagger[i].loop[1].resp)) =>
                 LET lp == tagger[i].loop[1]
                     listed == InScopeIds(lp.resp, event.regions[i])
                 IN  /\ tagger[i].stats.total
                           = InScopeCount(tagger[i].seen, event.regions[i], Len(service_methods))
                             + Len(lp.results)
                     /\ tagger[i].stats.tagged = 0
                     /\ tagger[i].stats.failed = 0
                     /\ Len(lp.results) <= Len(listed)
                     /\ lp.results = SubSeq(listed, 1, Len(lp.results))
                     /\ Finished(lp) => lp.results = listed

C4_Witness ==
    /\ event.dry_run
    /\ \E i \in Tasks :
          /\ task[i] = "done"
          /\ DOMAIN tagger[i].seen = {"lambda"}
          /\ Len(tagger[i].seen["lambda"].items) = 2
          /\ ~EnumerationFailed(tagger[i].seen["lambda"])
          /\ tagger[i].stats.total = 2
          /\ Len(tagger[i].all_results["lambda"]) = 2

(* C5: a put_bucket_tagging request for a bucket that had N tags carries    *)
(* every tag the bucket had under another key, and N+1 tags, or N when the *)
(* key was already there; also when get_bucket_tagging answered a client   *)
(* error.                                                                  *)
C5_MergeBeforeWrite ==
    \A b \in DOMAIN lastPut :
        lastPut[b] # <<>> =>
            LET p == lastPut[b][1]
            IN  /\ \A j \in 1..Len(p.before) :
                      p.before[j][1] # TAG_KEY => p.before[j] \in Range(p.written)
                /\ Len(p.written) = IF TAG_KEY \in Keys(p.before)
                                    THEN Len(p.before) ELSE Len(p.before) + 1

(* C6: a second pass over the same region, over a bucket that already       *)
(* carries the tag, writes a tag set that holds the tag key exactly once,  *)
(* with the configured value, and every other tag unchanged.               *)
C6_SecondPassIdempotent ==
    \A b \in DOMAIN lastPut :
        (Len(event.regions) = 1 /\ lastPut[b] # <<>>
         /\ <<TAG_KEY, TAG_VALUE>> \in Range(lastPut[b][1].before))
        => LET p == lastPut[b][1]
           IN  /\ Cardinality({j \in 1..Len(p.written) : p.written[j][1] = TAG_KEY}) = 1
               /\ <<TAG_KEY, TAG_VALUE>> \in Range(p.written)
               /\ \A j \in 1..Len(p.before) : p.before[j] \in Range(p.written)

(* C7: when the enumerator of a kind fails in a region (client error or     *)
(* unexpected exception), the region's failed counter counts it, every     *)
(* other selected kind of the region is still run and recorded under its   *)
(* key, and a region whose own calls all succeeded reports no failure.     *)
C7_FailureIsolated ==
    \A i \in Tasks :
        LET failedKinds == {k \in DOMAIN tagger[i].seen : EnumeratorFailed(tagger[i].seen[k])}
        IN  /\ tagger[i].stats.failed >= Cardinality(failedKinds)
            /\ (task[i] = "done" /\ event.services.kind # "malformed") =>
                  \A k \in Range(SelectedKinds(event.services)) :
                     /\ k \in DOMAIN tagger[i].seen
                     /\ ~Raised(k, tagger[i].seen[k]) => k \in DOMAIN tagger[i].all_results
            /\ (/\ BetweenKinds(i)
                /\ \A k \in DOMAIN tagger[i].seen : NumFaults(tagger[i].seen[k]) = 0 /\ k # "s3")
                  => tagger[i].stats.failed = 0

(* C8: the region tasks started and not yet finished never number more      *)
(* than min(len(regions), 5), and once the handler runs every region's     *)
(* task is eventually started and finished.                                *)
C8_BoundedPool ==
    /\ [](Cardinality(Active) <= Min(Len(event.regions), WorkerCap))
    /\ (hpc = "running") ~> (\A i \in Tasks : task[i] = "done")

C8_Witness ==
    /\ Len(event.regions) > WorkerCap
    /\ Cardinality(Active) = WorkerCap
    /\ \E i \in Tasks : task[i] = "pending"

(* C9: lambda_handler never raises: every invocation ends in a response     *)
(* with statusCode 200.                                                    *)
C9_AlwaysReturns200 ==
    /\ hpc # "raised"
    /\ Returned => response[1].statusCode = 200

(* C10: with a services filter supplied, the kinds a region runs, and the   *)
(* keys of its resources mapping, are the requested names that are in the  *)
(* registry; with none supplied every known kind is run.                   *)
RequestedKnown == Range(event.services.names) \cap KnownKinds

C10_Expected == IF event.services.kind = "list" THEN RequestedKnown ELSE KnownKinds

C10_FilterIsIntersection ==
    event.services.kind # "malformed" =>
        \A i \in Tasks :
            /\ DOMAIN tagger[i].seen \subseteq C10_Expected
            /\ DOMAIN tagger[i].all_results \subseteq C10_Expected
            /\ task[i] = "done" => DOMAIN tagger[i].seen = C10_Expected

(* C10, amended: a non-empty filter selects the requested names that are in *)
(* the registry, and a name outside it adds no key and no failure; an      *)
(* absent or empty filter selects every known kind.  The keys are the      *)
(* selected kinds whose enumerator did not raise.                          *)
C10_ExpectedAmended ==
    IF event.services.kind = "list" /\ Len(event.services.names) > 0
    THEN RequestedKnown ELSE KnownKinds

C10_FilterAmended ==
    event.services.kind # "malformed" =>
        \A i \in Tasks :
            /\ DOMAIN tagger[i].seen \subseteq C10_ExpectedAmended
            /\ DOMAIN tagger[i].all_results
                  = {k \in DOMAIN tagger[i].seen : ~Raised(k, tagger[i].seen[k])}
            /\ task[i] = "done" => DOMAIN tagger[i].seen = C10_ExpectedAmended
            /\ (task[i] = "done" /\ C10_ExpectedAmended = {}) =>
                  /\ tagger[i].stats = NewStats
                  /\ \E j \in 1..Len(results) :
                        results[j] = [region |-> event.regions[i], resources |-> <<>>,
                                      statistics |-> NewStats]

C10_Witness ==
    /\ event.services = Names(<<"ec2", "notarealservice">>)
    /\ \E i \in Tasks :
          /\ task[i] = "done"
          /\ DOMAIN tagger[i].all_results = {"ec2"}
          /\ Len(tagger[i].all_results["ec2"]) = 1

\* the resources of a response whose own tag or describe call answers a
\* client error
ResourceErrors(resp) ==
    {j \in 1..Len(resp.items) : resp.items[j].out \in {"tag_error", "describe_error"}}

RECURSIVE ResourceErrorCount(_, _)
ResourceErrorCount(seen, n) ==
    IF n = 0 THEN 0
    ELSE ResourceErrorCount(seen, n - 1)
         + (IF service_methods[n] \in DOMAIN seen
            THEN Cardinality(ResourceErrors(seen[service_methods[n]])) ELSE 0)

(* C11: within one enumerator a client error on a single resource (its tag  *)
(* call or its describe call) is caught, adds exactly one to failed, and   *)
(* the enumeration goes on: in a real run whose list calls all succeed,    *)
(* every listed resource whose own calls succeed is tagged and recorded,   *)
(* whatever failed before it, and failed counts the failing resources.     *)
(* Stated for the enumerators other than S3, the EC2 path and the nested   *)
(* ECS enumeration included.                                               *)
C11_ResourceErrorIsolated ==
    \A i \in Tasks :
        LET seen == tagger[i].seen
            clean == \A k \in DOMAIN seen : seen[k].faults = {} /\ k # "s3"
        IN  (~event.dry_run /\ BetweenKinds(i) /\ clean) =>
               /\ \A k \in DOMAIN seen :
                     \A j \in 1..Len(seen[k].items) :
                        seen[k].items[j].out = "ok" =>
                           /\ k \in DOMAIN tagger[i].all_results
                           /\ <<seen[k].items[j].sub, seen[k].items[j].id>>
                                 \in Range(tagger[i].all_results[k])
               /\ tagger[i].stats.failed = ResourceErrorCount(seen, Len(service_methods))

\* the response holds no failure but client errors of list calls
OnlyListClientErrors(k, resp) ==
    /\ \A f \in resp.faults : f[2] = "ClientError"
    /\ \A j \in 1..Len(resp.items) : resp.items[j].out \in {"ok", "no_arn"}
    /\ k = "s3" => resp.items = <<>>

\* the kinds of the response whose list call answered a client error: the
\* enumerator's kind, or each service of tag_additional_services
ListFailures(k, resp) ==
    IF k = "additional" THEN Cardinality(resp.faults)
    ELSE IF resp.faults # {} THEN 1 ELSE 0

RECURSIVE ListFailureCount(_, _)
ListFailureCount(seen, n) ==
    IF n = 0 THEN 0
    ELSE ListFailureCount(seen, n - 1)
         + (IF service_methods[n] \in DOMAIN seen
            THEN ListFailures(service_methods[n], seen[service_methods[n]]) ELSE 0)

(* C12: a client error of the list call of a kind adds exactly one to the   *)
(* region's failed counter and aborts only that kind, the SNS, SQS, Step   *)
(* Functions, Secrets Manager and EFS kinds included: when nothing else    *)
(* goes wrong in a region, failed is the number of kinds whose list call   *)
(* failed, and the resources of the other kinds are still recorded.        *)
C12_ListErrorCountsOne ==
    \A i \in Tasks :
        LET seen == tagger[i].seen
        IN  (BetweenKinds(i) /\ \A k \in DOMAIN seen : OnlyListClientErrors(k, seen[k])) =>
               /\ tagger[i].stats.failed = ListFailureCount(seen, Len(service_methods))
               /\ DOMAIN tagger[i].all_results = DOMAIN seen
               /\ \A k \in DOMAIN seen :
                     \A j \in 1..Len(seen[k].items) :
                        (/\ seen[k].items[j].out = "ok"
                         /\ k = "additional" \/ seen[k].faults = {}
                         /\ \A f \in seen[k].faults : seen[k].items[j].sub \notin SubsOf(f[1]))
                        => <<seen[k].items[j].sub, seen[k].items[j].id>>
                              \in Range(tagger[i].all_results[k])

\* the region passes that tagged, counted and listed bucket b
PassesListing(b) ==
    {i \in Tasks : /\ "s3" \in DOMAIN tagger[i].all_results
                   /\ <<"s3-bucket", b>> \in Range(tagger[i].all_results["s3"])}

(* C13: in a run over several distinct regions the region filter of the S3  *)
(* enumerator lets each bucket be tagged, counted and listed in at most    *)
(* one region's pass, whatever the bucket's location.                      *)
C13_BucketInOnePass ==
    (\A i, j \in Tasks : i # j => event.regions[i] # event.regions[j]) =>
        \A b \in Range(BucketList(buckets)) : Cardinality(PassesListing(b)) <= 1

====
